---- MODULE Spec2Model ----
(***************************************************************************)
(* xc-fetch (tools/xc-fetch/src/main.rs): identifier parsing, the fetch    *)
(* pipeline of main, and the index merge of update_index.                  *)
(*                                                                         *)
(* Text is a sequence of one-character strings.  A u64 is its canonical    *)
(* decimal digit sequence (no leading zeros, at most U64MaxDigits), which  *)
(* is in bijection with the 64-bit values and is what `{}` prints.         *)
(***************************************************************************)
EXTENDS Integers, Sequences, FiniteSets, TLC

VARIABLES
    pform,      \* parser harness: how the input text was built
    pinput,     \* parser harness: the text handed to parse_xc_number
    presult,    \* parser harness: kind "none" before the call, then the Result
    indexFile,  \* the index file at the index path
    index0,     \* the index file as it was at the start of the behaviour
    mh,         \* merge harness: the last two update_index calls
    disk,       \* the output directory: whether it exists, and its files
    pc,         \* where the invocation of main stands
    status,     \* how the invocation ended: "ok", "exit1" (exit(1)), "panic"
    inp,        \* what the invocation was given: arguments, environment, replies
    loc,        \* locals of main
    net,        \* the requests the invocation has sent, in order
    hist,       \* the files at the start of the invocation, and the previous one
    runs,       \* invocations started so far
    cw,         \* concurrent invocations inside update_index, and the last to write
    sn          \* sanitizer harness: the name, and sanitize_filename applied to it

merge_vars == <<indexFile, index0, mh>>
parse_vars == <<pform, pinput, presult>>
main_vars == <<disk, pc, status, inp, loc, net, hist, runs>>
aux_vars == <<cw, sn>>
vars == <<pform, pinput, presult, indexFile, index0, mh,
          disk, pc, status, inp, loc, net, hist, runs, cw, sn>>

(***************************************************************************)
(* Text helpers                                                            *)
(***************************************************************************)
Digits == <<"0", "1", "2", "3", "4", "5", "6", "7", "8", "9">>

IsDigit(c) == \E i \in 1..10 : Digits[i] = c

DigitVal(c) == (CHOOSE i \in 1..10 : Digits[i] = c) - 1

\* char::is_whitespace, restricted to the characters the inputs use
WhiteSpace == {" ", "\t", "\n"}

StartsWith(s, p) ==
    /\ Len(s) >= Len(p)
    /\ \A i \in 1..Len(p) : s[i] = p[i]

\* str::strip_prefix: the rest after p, when s starts with p
StripPrefix(s, p) ==
    IF StartsWith(s, p)
    THEN [some |-> TRUE, rest |-> SubSeq(s, Len(p) + 1, Len(s))]
    ELSE [some |-> FALSE, rest |-> <<>>]

\* str::trim
Trim(s) ==
    LET keep == {i \in 1..Len(s) : s[i] \notin WhiteSpace}
    IN  IF keep = {} THEN <<>>
        ELSE LET lo == CHOOSE i \in keep : \A j \in keep : i <= j
                 hi == CHOOSE i \in keep : \A j \in keep : j <= i
             IN  SubSeq(s, lo, hi)

\* str::trim_end_matches('/')
TrimEndSlash(s) ==
    LET keep == {i \in 1..Len(s) : s[i] # "/"}
    IN  IF keep = {} THEN <<>>
        ELSE SubSeq(s, 1, CHOOSE i \in keep : \A j \in keep : j <= i)

\* str::rsplit(sep).next(): the text after the last sep, all of s without one
LastSegment(s, sep) ==
    LET at == {i \in 1..Len(s) : s[i] = sep}
    IN  IF at = {} THEN s
        ELSE SubSeq(s, (CHOOSE i \in at : \A j \in at : j <= i) + 1, Len(s))

(***************************************************************************)
(* str::parse::<u64>                                                       *)
(***************************************************************************)
U64MaxDigits ==
    <<"1", "8", "4", "4", "6", "7", "4", "4", "0", "7",
      "3", "7", "0", "9", "5", "5", "1", "6", "1", "5">>

\* the value of a non-empty digit run, without its leading zeros
Canonical(d) ==
    LET nz == {i \in 1..Len(d) : d[i] # "0"}
    IN  IF nz = {} THEN <<"0">>
        ELSE SubSeq(d, CHOOSE i \in nz : \A j \in nz : i <= j, Len(d))

\* canonical c exceeds u64::MAX
OverflowsNever(c) == FALSE
Overflows(c) ==
    \/ Len(c) > Len(U64MaxDigits)
    \/ /\ Len(c) = Len(U64MaxDigits)
       /\ \E i \in 1..Len(c) :
            /\ \A j \in 1..(i - 1) : c[j] = U64MaxDigits[j]
            /\ DigitVal(c[i]) > DigitVal(U64MaxDigits[i])

OkU64(v) == [ok |-> TRUE, v |-> v]
ErrU64 == [ok |-> FALSE, v |-> <<>>]

\* u64::from_str: an optional '+', then one or more digits, no overflow
ParseU64(s) ==
    IF Len(s) = 0 THEN ErrU64
    ELSE LET d == IF s[1] = "+" THEN Tail(s) ELSE s
         IN  IF Len(d) = 0 \/ \E i \in 1..Len(d) : ~IsDigit(d[i])
             THEN ErrU64
             ELSE IF Overflows(Canonical(d)) THEN ErrU64
                  ELSE OkU64(Canonical(d))

(***************************************************************************)
(* parse_xc_number                                                         *)
(***************************************************************************)
HttpHost ==
    <<"h", "t", "t", "p", ":", "/", "/",
      "x", "e", "n", "o", "-", "c", "a", "n", "t", "o", ".", "o", "r", "g", "/">>
HttpsHost ==
    <<"h", "t", "t", "p", "s", ":", "/", "/",
      "x", "e", "n", "o", "-", "c", "a", "n", "t", "o", ".", "o", "r", "g", "/">>

\* the `XC`/`xc` prefix test of the second form
XcPrefixRest(s) ==
    IF StripPrefix(s, <<"X", "C">>).some THEN StripPrefix(s, <<"X", "C">>)
    ELSE StripPrefix(s, <<"x", "c">>)

\* the host test of the URL form
IsAnyHttpsUrl(s) == StartsWith(s, <<"h", "t", "t", "p", "s", ":", "/", "/">>)
IsProviderUrl(s) == StartsWith(s, HttpHost) \/ StartsWith(s, HttpsHost)

\* Result<u64, String>: kind "ok" with the number, or kind "err"
parse_xc_number(input) ==
    LET s == Trim(input)
    IN  IF ParseU64(s).ok THEN [kind |-> "ok", n |-> ParseU64(s).v]
        ELSE IF XcPrefixRest(s).some
        THEN IF ParseU64(XcPrefixRest(s).rest).ok
             THEN [kind |-> "ok", n |-> ParseU64(XcPrefixRest(s).rest).v]
             ELSE [kind |-> "err", n |-> <<>>]
        ELSE IF /\ IsProviderUrl(s)
                /\ ParseU64(LastSegment(TrimEndSlash(s), "/")).ok
        THEN [kind |-> "ok", n |-> ParseU64(LastSegment(TrimEndSlash(s), "/")).v]
        ELSE [kind |-> "err", n |-> <<>>]

(***************************************************************************)
(* Parser harness: texts built from a prefix, a number, a tail and padding *)
(***************************************************************************)
Www == <<"w", "w", "w", ".">>
Host == <<"x", "e", "n", "o", "-", "c", "a", "n", "t", "o", ".", "o", "r", "g", "/">>
HttpScheme == <<"h", "t", "t", "p", ":", "/", "/">>
HttpsScheme == <<"h", "t", "t", "p", "s", ":", "/", "/">>
ForeignUrl ==
    <<"h", "t", "t", "p", "s", ":", "/", "/",
      "e", "x", "a", "m", "p", "l", "e", ".", "c", "o", "m", "/">>

XcPrefixes == {<<"X", "C">>, <<"x", "c">>, <<"X", "c">>, <<"x", "C">>}
UrlPrefixes ==
    {sch \o w \o Host : sch \in {<<>>, HttpScheme, HttpsScheme}, w \in {<<>>, Www}}

U64MaxPlusOne ==
    <<"1", "8", "4", "4", "6", "7", "4", "4", "0", "7",
      "3", "7", "0", "9", "5", "5", "1", "6", "1", "6">>

NumberTexts ==
    { <<"0">>, <<"7">>, <<"9", "2", "8", "0", "9", "4">>, <<"0", "0", "7">>,
      U64MaxDigits, U64MaxPlusOne, <<>>, <<"a", "b", "c">>, <<"+", "5">>,
      <<"-", "5">>, <<"1", "2", "a">> }

ParseForms ==
    [ kind : {"plain"}, pre : {<<>>}, num : NumberTexts, tail : {<<>>, <<"/">>},
      lead : {<<>>, <<" ">>}, trail : {<<>>, <<"\t", "\n">>} ]
    \cup
    [ kind : {"xc"}, pre : XcPrefixes, num : NumberTexts, tail : {<<>>, <<"/">>},
      lead : {<<>>, <<" ">>}, trail : {<<>>, <<"\t", "\n">>} ]
    \cup
    [ kind : {"url"}, pre : UrlPrefixes, num : NumberTexts, tail : {<<>>, <<"/">>},
      lead : {<<>>, <<" ">>}, trail : {<<>>, <<"\t", "\n">>} ]
    \cup
    [ kind : {"foreign"}, pre : {ForeignUrl}, num : NumberTexts, tail : {<<>>, <<"/">>},
      lead : {<<>>, <<" ">>}, trail : {<<>>, <<"\t", "\n">>} ]

FormText(f) == f.lead \o f.pre \o f.num \o f.tail \o f.trail

NoForm ==
    [kind |-> "none", pre |-> <<>>, num |-> <<>>, tail |-> <<>>,
     lead |-> <<>>, trail |-> <<>>]
NoResult == [kind |-> "none", n |-> <<>>]

ParserIdle == pform = NoForm /\ pinput = <<>> /\ presult = NoResult

ParseCall ==
    /\ pform # NoForm
    /\ presult = NoResult
    /\ presult' = parse_xc_number(pinput)
    /\ UNCHANGED <<pform, pinput, aux_vars, merge_vars, main_vars>>

(***************************************************************************)
(* The index file and update_index                                         *)
(*                                                                         *)
(* A file that serde_json can parse (kind "doc") is held as the document   *)
(* it denotes plus `pretty`: whether its text is exactly what              *)
(* to_string_pretty and the trailing newline produce.  Parsing forgets the *)
(* layout, serializing always yields the pretty layout.  kind "corrupt" is *)
(* a file that does not parse.  In a document, soundsIsArray is FALSE when *)
(* `sounds` is missing or is not an array.  A stored xc_id is a JSON       *)
(* value: a u64 number (t = "u64") or something else (t = "str").          *)
(***************************************************************************)
JsonU64(n) == [t |-> "u64", v |-> n]
JsonOther(x) == [t |-> "str", v |-> x]

\* Value::as_u64
as_u64_None(j) == [some |-> FALSE, v |-> <<>>]
as_u64(j) == IF j.t = "u64" THEN [some |-> TRUE, v |-> j.v] ELSE [some |-> FALSE, v |-> <<>>]

SourceTag == "xeno-canto"

\* json!({ "version": 1, "sounds": [] })
EmptyIndex == [version |-> 1, soundsIsArray |-> TRUE, sounds |-> <<>>]

AbsentFile == [kind |-> "absent", pretty |-> FALSE, doc |-> EmptyIndex]
CorruptFile == [kind |-> "corrupt", pretty |-> FALSE, doc |-> EmptyIndex]

\* serde_json::to_string_pretty(&index) and the "\n" appended to it
to_string_pretty(doc) == [kind |-> "doc", pretty |-> TRUE, doc |-> doc]

\* index_path.exists(), read_to_string and serde_json::from_str
LoadIndexRepair(file) ==
    IF file.kind \in {"absent", "corrupt"} THEN [panic |-> FALSE, doc |-> EmptyIndex]
    ELSE [panic |-> FALSE, doc |-> file.doc]
LoadIndex(file) ==
    IF file.kind = "absent" THEN [panic |-> FALSE, doc |-> EmptyIndex]
    ELSE IF file.kind = "corrupt" THEN [panic |-> TRUE, doc |-> EmptyIndex]
    ELSE [panic |-> FALSE, doc |-> file.doc]

\* sounds.iter().any(|s| s["xc_id"].as_u64() == Some(xc_id))
AlreadyInIndexFirstOnly(sounds, xc_id) ==
    Len(sounds) > 0 /\ as_u64(sounds[1].xc_id) = [some |-> TRUE, v |-> xc_id]
AlreadyInIndex(sounds, xc_id) ==
    \E i \in 1..Len(sounds) : as_u64(sounds[i].xc_id) = [some |-> TRUE, v |-> xc_id]

\* the json!({...}) entry that update_index pushes
NewEntryIdAsText(xc_id, en, genus, sp, audio_filename, meta_filename) ==
    [ filename |-> audio_filename,
      metadata |-> meta_filename,
      xc_id    |-> JsonOther(xc_id),
      en       |-> en,
      species  |-> genus \o <<" ">> \o sp,
      source   |-> SourceTag ]
NewEntry(xc_id, en, genus, sp, audio_filename, meta_filename) ==
    [ filename |-> audio_filename,
      metadata |-> meta_filename,
      xc_id    |-> JsonU64(xc_id),
      en       |-> en,
      species  |-> genus \o <<" ">> \o sp,
      source   |-> SourceTag ]

\* sounds.push(entry)
PushEntryFront(doc, entry) == [doc EXCEPT !.sounds = <<entry>> \o @]
PushEntry(doc, entry) == [doc EXCEPT !.sounds = Append(@, entry)]

\* update_index: whether it panicked, which branch returned, whether it wrote
\* the file, and the file it leaves
update_index(file, xc_id, en, genus, sp, audio_filename, meta_filename) ==
    LET loaded == LoadIndex(file)
    IN  IF loaded.panic \/ ~loaded.doc.soundsIsArray
        THEN [panic |-> TRUE, outcome |-> "none", wrote |-> FALSE, file |-> file]
        ELSE IF AlreadyInIndex(loaded.doc.sounds, xc_id)
        THEN [panic |-> FALSE, outcome |-> "AlreadyPresent", wrote |-> FALSE, file |-> file]
        ELSE [ panic |-> FALSE, outcome |-> "Inserted", wrote |-> TRUE,
               file |-> to_string_pretty(
                            PushEntry(loaded.doc,
                                NewEntry(xc_id, en, genus, sp, audio_filename, meta_filename))) ]

(***************************************************************************)
(* Merge harness: update_index called with arbitrary arguments             *)
(***************************************************************************)
MaxMerges == 4

MergeIds == {<<"5">>, <<"7">>, <<"1", "2">>}
MergeNames == {<<"W">>, <<"a", "b">>}
MergeAudioNames == {<<"a", ".", "w", "a", "v">>, <<"b", ".", "m", "p", "3">>}

MergeArgs ==
    [ xc_id : MergeIds, en : MergeNames, genus : {<<"T">>}, sp : {<<"t">>},
      audio : MergeAudioNames, meta : {<<"a", ".", "x", "c", ".", "j", "s", "o", "n">>} ]

NoArgs ==
    [xc_id |-> <<>>, en |-> <<>>, genus |-> <<>>, sp |-> <<>>, audio |-> <<>>, meta |-> <<>>]

ArgsEntry(a) == NewEntry(a.xc_id, a.en, a.genus, a.sp, a.audio, a.meta)

OldEntry(id) ==
    [ filename |-> <<"o", "l", "d">>, metadata |-> <<"o", "l", "d">>, xc_id |-> id,
      en |-> <<"o">>, species |-> <<"o", " ", "s">>, source |-> SourceTag ]

\* a parseable file found on disk, written by hand or by another tool
HandWritten(version, sounds) ==
    [ kind |-> "doc", pretty |-> FALSE,
      doc |-> [version |-> version, soundsIsArray |-> TRUE, sounds |-> sounds] ]

\* index files found on disk before the tool runs
InitialIndexes ==
    { AbsentFile,
      CorruptFile,
      [ kind |-> "doc", pretty |-> TRUE,
        doc |-> [version |-> 1, soundsIsArray |-> FALSE, sounds |-> <<>>] ],
      to_string_pretty(EmptyIndex),
      HandWritten(1, <<OldEntry(JsonU64(<<"5">>))>>),
      HandWritten(2, <<OldEntry(JsonOther(<<"7">>)), OldEntry(JsonU64(<<"9">>))>>),
      HandWritten(1, <<OldEntry(JsonU64(<<"5">>)), OldEntry(JsonU64(<<"5">>))>>) }

NoMerge ==
    [ calls |-> 0, args |-> NoArgs, outcome |-> "none", panic |-> FALSE,
      wrote |-> FALSE, before |-> AbsentFile,
      prevArgs |-> NoArgs, prevOutcome |-> "none", prevBefore |-> AbsentFile ]

MergeCall(a) ==
    /\ mh.calls < MaxMerges
    /\ LET r == update_index(indexFile, a.xc_id, a.en, a.genus, a.sp, a.audio, a.meta)
       IN  /\ indexFile' = r.file
           /\ mh' = [ calls |-> mh.calls + 1, args |-> a, outcome |-> r.outcome,
                      panic |-> r.panic, wrote |-> r.wrote, before |-> indexFile,
                      prevArgs |-> mh.args, prevOutcome |-> mh.outcome,
                      prevBefore |-> mh.before ]
    /\ UNCHANGED <<parse_vars, aux_vars, index0, main_vars>>

(***************************************************************************)
(* The raw record of the API and what main derives from it                 *)
(***************************************************************************)
JStr(s) == [t |-> "str", s |-> s]
JNull == [t |-> "null", s |-> <<>>]

\* Value::as_str
as_str(j) == IF j.t = "str" THEN [some |-> TRUE, s |-> j.s] ELSE [some |-> FALSE, s |-> <<>>]

\* rec[field].as_str().unwrap_or("")
StrOrEmpty(j) == IF as_str(j).some THEN as_str(j).s ELSE <<>>

ReservedChars == {"<", ">", ":", "\"", "/", "\\", "|", "?", "*"}

sanitize_filename_strip(name) ==
    LET Kept(c) == c \notin ReservedChars IN SelectSeq(name, Kept)
sanitize_filename(name) ==
    [i \in 1..Len(name) |-> IF name[i] \in ReservedChars THEN "_" ELSE name[i]]

\* sanitize_filename(&format!("XC{} - {} - {} {}", id, en, genus, sp))
BaseName(rec) ==
    sanitize_filename(
        <<"X", "C">> \o StrOrEmpty(rec.id) \o <<" ", "-", " ">> \o StrOrEmpty(rec.en)
        \o <<" ", "-", " ">> \o StrOrEmpty(rec.gen) \o <<" ">> \o StrOrEmpty(rec.sp))

FallbackExt == <<"w", "a", "v">>

\* rec["file-name"].as_str().and_then(|name| name.rsplit('.').next()).unwrap_or("wav")
Extension(rec) ==
    IF as_str(rec.fileName).some THEN LastSegment(as_str(rec.fileName).s, ".")
    ELSE FallbackExt

AudioFilename(rec) == BaseName(rec) \o <<".">> \o Extension(rec)
MetaFilename(rec) == BaseName(rec) \o <<".", "x", "c", ".", "j", "s", "o", "n">>

\* rec["id"].as_str().and_then(|s| s.parse::<u64>().ok()).unwrap_or(xc_number)
RecordingId(rec, xc_number) ==
    IF as_str(rec.id).some /\ ParseU64(as_str(rec.id).s).ok
    THEN ParseU64(as_str(rec.id).s).v
    ELSE xc_number

\* "{}, XC{}. Accessible at www.xeno-canto.org/{}"
Attribution(rec) ==
    StrOrEmpty(rec.rec) \o <<",", " ", "X", "C">> \o StrOrEmpty(rec.id)
    \o <<".", " ", "A", "c", "c", "e", "s", "s", "i", "b", "l", "e", " ", "a", "t", " ">>
    \o Www \o Host \o StrOrEmpty(rec.id)

\* the json!({...}) metadata document of main
Normalize(rec, xc_number, date) ==
    [ source       |-> SourceTag,
      xc_id        |-> RecordingId(rec, xc_number),
      url          |-> HttpsScheme \o Www \o Host \o StrOrEmpty(rec.id),
      file_url     |-> rec.file,
      gen          |-> StrOrEmpty(rec.gen),
      sp           |-> StrOrEmpty(rec.sp),
      en           |-> StrOrEmpty(rec.en),
      rec          |-> StrOrEmpty(rec.rec),
      lic          |-> StrOrEmpty(rec.lic),
      attribution  |-> Attribution(rec),
      retrieved    |-> date,
      raw_response |-> rec ]

NoRecord ==
    [ id |-> JNull, gen |-> JNull, sp |-> JNull, en |-> JNull, rec |-> JNull,
      lic |-> JNull, file |-> JNull, fileName |-> JNull ]

NoMeta == Normalize(NoRecord, <<>>, "none")

\* files of the output directory: a metadata document or audio bytes under a name
MetaFile(name, doc) == [name |-> name, kind |-> "meta", meta |-> doc, bytes |-> "none"]
AudioFile(name, bytes) == [name |-> name, kind |-> "audio", meta |-> NoMeta, bytes |-> bytes]

\* fs::write / File::create + write_all: the file of that name is replaced
WriteFile(files, f) == {g \in files : g.name # f.name} \cup {f}

(***************************************************************************)
(* What an invocation is given                                             *)
(***************************************************************************)
MaxRuns == 2

None == [some |-> FALSE, v |-> "none"]
Some(x) == [some |-> TRUE, v |-> x]

MalformedIds ==
    { <<>>, <<"a", "b", "c">>, <<"X", "C">>,
      ForeignUrl \o <<"9", "2", "8", "0", "9", "4">> }

RecordingArgs == MalformedIds \cup {<<"5">>, <<" ", "X", "C", "7">>}

\* --key, the XC_API_KEY variable of the environment, and XC_API_KEY in .env
KeySources == [flag : {None, Some("kf")}, envVar : {None, Some("ke")}, dotenv : {None, Some("kd")}]

R1 ==
    [ id |-> JStr(<<"5">>), gen |-> JStr(<<"T">>), sp |-> JStr(<<"t">>),
      en |-> JStr(<<"W">>), rec |-> JStr(<<"J">>), lic |-> JStr(<<"C">>),
      file |-> JStr(<<"u", "1">>), fileName |-> JStr(<<"a", ".", "m", "p", "3">>) ]
R2 ==
    [ id |-> JNull, gen |-> JStr(<<"T">>), sp |-> JStr(<<"t">>),
      en |-> JStr(<<"W">>), rec |-> JStr(<<"J">>), lic |-> JNull,
      file |-> JStr(<<"u", "2">>), fileName |-> JNull ]
R3 ==
    [ id |-> JStr(<<"7">>), gen |-> JStr(<<"G">>), sp |-> JStr(<<"s">>),
      en |-> JStr(<<"a", "/", "b">>), rec |-> JStr(<<"K">>), lic |-> JStr(<<"C">>),
      file |-> JNull, fileName |-> JStr(<<"n", "o", "e", "x", "t">>) ]

\* a reply to the metadata request: whether one arrived, whether its status is
\* a success, whether its body is JSON, whether the body has a top-level `error`,
\* and its `recordings` member ("absent", "not_array", or "array" with recs)
Reply(sent, success, json, error, recordings, recs) ==
    [ sent |-> sent, success |-> success, json |-> json, error |-> error,
      recordings |-> recordings, recs |-> recs ]

ApiReplies ==
    { Reply(FALSE, FALSE, FALSE, FALSE, "absent", <<>>),
      Reply(TRUE, FALSE, TRUE, TRUE, "absent", <<>>),
      Reply(TRUE, TRUE, FALSE, FALSE, "absent", <<>>),
      Reply(TRUE, TRUE, TRUE, TRUE, "absent", <<>>),
      Reply(TRUE, TRUE, TRUE, TRUE, "array", <<R1>>),
      Reply(TRUE, TRUE, TRUE, FALSE, "absent", <<>>),
      Reply(TRUE, TRUE, TRUE, FALSE, "not_array", <<>>),
      Reply(TRUE, TRUE, TRUE, FALSE, "array", <<>>),
      Reply(TRUE, TRUE, TRUE, FALSE, "array", <<R1>>),
      Reply(TRUE, TRUE, TRUE, FALSE, "array", <<R2>>),
      Reply(TRUE, TRUE, TRUE, FALSE, "array", <<R3, R1>>) }

\* a reply to the audio request
AudioReply(sent, success, bytes) == [sent |-> sent, success |-> success, bytes |-> bytes]

AudioReplies ==
    { AudioReply(FALSE, FALSE, "none"), AudioReply(TRUE, FALSE, "none"),
      AudioReply(TRUE, TRUE, "b1"), AudioReply(TRUE, TRUE, "b2") }

Dates == {"2024-01-01", "2024-01-02"}

NotAsked == [ sent |-> FALSE, success |-> FALSE, json |-> FALSE, error |-> FALSE,
              recordings |-> "not_asked", recs |-> <<>> ]
NotFetched == [sent |-> FALSE, success |-> FALSE, bytes |-> "not_asked"]

NoInput ==
    [ recording |-> <<>>, metadata_only |-> FALSE, no_index |-> FALSE,
      keys |-> [flag |-> None, envVar |-> None, dotenv |-> None],
      api |-> NotAsked, date |-> "none", metaIo |-> "none",
      audio |-> NotFetched, audioIo |-> "none" ]

NoLocals ==
    [ xc_number |-> <<>>, api_key |-> None, rec |-> NoRecord, bytes |-> "none",
      outcome |-> "none", indexTouched |-> FALSE ]

NoHist ==
    [ startDisk |-> [dir |-> FALSE, files |-> {}], startIndex |-> AbsentFile,
      prevInp |-> NoInput, prevStatus |-> "none" ]

\* output directories found before the tool runs: none, or one holding the
\* files of an earlier download of R1
InitialDisks ==
    { [dir |-> FALSE, files |-> {}],
      [dir |-> TRUE,
       files |-> { MetaFile(MetaFilename(R1), Normalize(R1, <<"5">>, "2023-12-31")),
                   AudioFile(AudioFilename(R1), "b0") }] }

MainIdle ==
    /\ disk = [dir |-> FALSE, files |-> {}]
    /\ pc = "idle" /\ status = "none" /\ inp = NoInput /\ loc = NoLocals
    /\ net = <<>> /\ hist = NoHist /\ runs = 0

(***************************************************************************)
(* main, stage by stage                                                    *)
(***************************************************************************)
\* dotenvy::dotenv() sets XC_API_KEY from .env unless the environment has it;
\* args.key.or_else(|| std::env::var("XC_API_KEY").ok())
ResolveApiKeyOrEmpty(keys) ==
    IF keys.flag.some THEN keys.flag
    ELSE IF keys.envVar.some THEN keys.envVar
    ELSE IF keys.dotenv.some THEN keys.dotenv
    ELSE [some |-> TRUE, v |-> ""]
ResolveApiKey(keys) ==
    IF keys.flag.some THEN keys.flag
    ELSE IF keys.envVar.some THEN keys.envVar
    ELSE keys.dotenv

\* how main leaves the metadata request: "panic", "exit1", or on with "record"
FetchOutcomeMissingAsEmpty(reply) ==
    IF ~reply.sent THEN "panic"
    ELSE IF ~reply.success THEN "exit1"
    ELSE IF ~reply.json THEN "panic"
    ELSE IF reply.error THEN "exit1"
    ELSE IF reply.recordings # "array" THEN "exit1"
    ELSE IF reply.recs = <<>> THEN "exit1"
    ELSE "record"
FetchOutcomeNoErrorCheck(reply) ==
    IF ~reply.sent THEN "panic"
    ELSE IF ~reply.success THEN "exit1"
    ELSE IF ~reply.json THEN "panic"
    ELSE IF reply.recordings # "array" THEN "panic"
    ELSE IF reply.recs = <<>> THEN "exit1"
    ELSE "record"
FetchOutcome(reply) ==
    IF ~reply.sent THEN "panic"
    ELSE IF ~reply.success THEN "exit1"
    ELSE IF ~reply.json THEN "panic"
    ELSE IF reply.error THEN "exit1"
    ELSE IF reply.recordings # "array" THEN "panic"
    ELSE IF reply.recs = <<>> THEN "exit1"
    ELSE "record"

\* how main leaves the audio request: "panic", "exit1", or on with "bytes"
AudioOutcomeNoStatusCheck(reply) == IF ~reply.sent THEN "panic" ELSE "bytes"
AudioOutcome(reply) ==
    IF ~reply.sent THEN "panic"
    ELSE IF ~reply.success THEN "exit1"
    ELSE "bytes"

\* if !args.metadata_only
DownloadsAudioAlways(args) == TRUE
DownloadsAudio(args) == ~args.metadata_only

\* if !args.no_index
UpdatesIndex(args) == ~args.no_index

AfterAudio(args) == IF UpdatesIndex(args) THEN "index" ELSE "summary"
AfterMetadataSkipAudio(args) == AfterAudio(args)
AfterMetadata(args) == IF DownloadsAudio(args) THEN "audio_fetch" ELSE AfterAudio(args)

Exit(st) == pc' = "exited" /\ status' = st

\* dotenvy::dotenv, Args::parse and parse_xc_number
Begin(recording, metadata_only, no_index, keys) ==
    /\ runs' = runs + 1
    /\ inp' = [NoInput EXCEPT !.recording = recording, !.metadata_only = metadata_only,
                              !.no_index = no_index, !.keys = keys]
    /\ hist' = [ startDisk |-> disk, startIndex |-> indexFile,
                 prevInp |-> inp, prevStatus |-> status ]
    /\ net' = <<>>
    /\ LET parsed == parse_xc_number(recording)
       IN  IF parsed.kind = "ok"
           THEN /\ pc' = "key" /\ status' = "running"
                /\ loc' = [NoLocals EXCEPT !.xc_number = parsed.n]
           ELSE /\ Exit("exit1")
                /\ loc' = NoLocals
    /\ UNCHANGED <<parse_vars, aux_vars, merge_vars, disk>>

\* the tool is started
Invoke(recording, metadata_only, no_index, keys) ==
    /\ pc = "idle"
    /\ Begin(recording, metadata_only, no_index, keys)

\* the tool is started again after it has ended
Reinvoke(recording, metadata_only, no_index, keys) ==
    /\ pc = "exited"
    /\ runs < MaxRuns
    /\ Begin(recording, metadata_only, no_index, keys)

\* the API key, or the panic of expect
ResolveKey ==
    /\ pc = "key"
    /\ IF ResolveApiKey(inp.keys).some
       THEN /\ pc' = "fetch"
            /\ loc' = [loc EXCEPT !.api_key = ResolveApiKey(inp.keys)]
            /\ UNCHANGED status
       ELSE Exit("panic") /\ UNCHANGED loc
    /\ UNCHANGED <<parse_vars, aux_vars, merge_vars, disk, inp, net, hist, runs>>

\* the metadata request and the reading of its reply
FetchMetadata(reply) ==
    /\ pc = "fetch"
    /\ inp' = [inp EXCEPT !.api = reply]
    /\ net' = Append(net, [kind |-> "metadata", nr |-> loc.xc_number, key |-> loc.api_key.v])
    /\ IF FetchOutcome(reply) = "record"
       THEN /\ pc' = "write_meta"
            /\ loc' = [loc EXCEPT !.rec = reply.recs[1]]
            /\ UNCHANGED status
       ELSE Exit(FetchOutcome(reply)) /\ UNCHANGED loc
    /\ UNCHANGED <<parse_vars, aux_vars, merge_vars, disk, hist, runs>>

\* the metadata document, create_dir_all and the write of <base>.xc.json;
\* io: "ok", or which of the two calls fails
WriteMetadata(date, io) ==
    /\ pc = "write_meta"
    /\ inp' = [inp EXCEPT !.date = date, !.metaIo = io]
    /\ IF io = "dir_fail"
       THEN Exit("panic") /\ UNCHANGED disk
       ELSE IF io = "write_fail"
       THEN Exit("panic") /\ disk' = [disk EXCEPT !.dir = TRUE]
       ELSE /\ disk' = [ dir |-> TRUE,
                         files |-> WriteFile(disk.files,
                                       MetaFile(MetaFilename(loc.rec),
                                                Normalize(loc.rec, loc.xc_number, date))) ]
            /\ pc' = AfterMetadata(inp)
            /\ UNCHANGED status
    /\ UNCHANGED <<parse_vars, aux_vars, merge_vars, loc, net, hist, runs>>

\* the audio request and the reading of its reply
FetchAudio(reply) ==
    /\ pc = "audio_fetch"
    /\ IF ~as_str(loc.rec.file).some
       THEN Exit("panic") /\ UNCHANGED <<inp, net, loc>>
       ELSE /\ inp' = [inp EXCEPT !.audio = reply]
            /\ net' = Append(net, [kind |-> "audio", nr |-> as_str(loc.rec.file).s,
                                   key |-> "none"])
            /\ IF AudioOutcome(reply) = "bytes"
               THEN /\ pc' = "audio_write"
                    /\ loc' = [loc EXCEPT !.bytes = reply.bytes]
                    /\ UNCHANGED status
               ELSE Exit(AudioOutcome(reply)) /\ UNCHANGED loc
    /\ UNCHANGED <<parse_vars, aux_vars, merge_vars, disk, hist, runs>>

\* File::create and write_all of the audio bytes
WriteAudio(io) ==
    /\ pc = "audio_write"
    /\ inp' = [inp EXCEPT !.audioIo = io]
    /\ IF io = "ok"
       THEN /\ disk' = [disk EXCEPT !.files =
                            WriteFile(@, AudioFile(AudioFilename(loc.rec), loc.bytes))]
            /\ pc' = AfterAudio(inp)
            /\ UNCHANGED status
       ELSE Exit("panic") /\ UNCHANGED disk
    /\ UNCHANGED <<parse_vars, aux_vars, index0, indexFile, mh, loc, net, hist, runs>>

\* the call of update_index
UpdateIndex ==
    /\ pc = "index"
    /\ LET r == update_index(indexFile, RecordingId(loc.rec, loc.xc_number),
                             StrOrEmpty(loc.rec.en), StrOrEmpty(loc.rec.gen),
                             StrOrEmpty(loc.rec.sp), AudioFilename(loc.rec),
                             MetaFilename(loc.rec))
       IN  /\ indexFile' = r.file
           /\ loc' = [loc EXCEPT !.outcome = r.outcome, !.indexTouched = TRUE]
           /\ IF r.panic THEN Exit("panic") ELSE pc' = "summary" /\ UNCHANGED status
    /\ UNCHANGED <<parse_vars, aux_vars, index0, mh, disk, inp, net, hist, runs>>

\* the summary on standard output, and the return of main
Summary ==
    /\ pc = "summary"
    /\ Exit("ok")
    /\ UNCHANGED <<parse_vars, aux_vars, merge_vars, disk, inp, loc, net, hist, runs>>

(***************************************************************************)
(* Concurrent invocations inside update_index                              *)
(*                                                                         *)
(* update_index reads the whole file (lines 87-89), works on the parsed    *)
(* Value in memory (94-109) and writes the whole file (111-112).  Each     *)
(* writer does the read and the write as two steps; other writers may run  *)
(* between them.                                                           *)
(***************************************************************************)
NumWriters == 3

Writers == 1..NumWriters

\* one entry for each id, and a second, different one for the id 5
ConcArgs ==
    { a \in MergeArgs :
        /\ a.en = <<"W">>
        /\ a.audio = <<"a", ".", "w", "a", "v">> \/ a.xc_id = <<"5">> }

\* a writer: where it stands, its arguments, the document it loaded, the Value
\* it holds in memory, and how its call ended
NoWriter ==
    [ pc |-> "idle", args |-> NoArgs, read |-> EmptyIndex, index |-> EmptyIndex,
      outcome |-> "none" ]

ConcIdle == cw = [w |-> [p \in Writers |-> NoWriter], last |-> 0]

SanitizerIdle == sn = [step |-> 0, name |-> <<>>, out |-> <<>>, again |-> <<>>]

AuxIdle == ConcIdle /\ SanitizerIdle

\* lines 87-109: load, the duplicate scan, and the push onto the Value in memory
ConcRead(p, a) ==
    /\ cw.w[p].pc = "idle"
    /\ LET loaded == LoadIndex(indexFile)
       IN  IF loaded.panic \/ ~loaded.doc.soundsIsArray
           THEN cw' = [cw EXCEPT !.w[p] = [NoWriter EXCEPT !.pc = "done", !.args = a,
                                                        !.outcome = "panic"]]
           ELSE IF AlreadyInIndex(loaded.doc.sounds, a.xc_id)
           THEN cw' = [cw EXCEPT !.w[p] = [NoWriter EXCEPT !.pc = "done", !.args = a,
                                                        !.read = loaded.doc,
                                                        !.index = loaded.doc,
                                                        !.outcome = "AlreadyPresent"]]
           ELSE cw' = [cw EXCEPT !.w[p] =
                          [ pc |-> "write", args |-> a, read |-> loaded.doc,
                            index |-> PushEntry(loaded.doc,
                                          NewEntry(a.xc_id, a.en, a.genus, a.sp,
                                                   a.audio, a.meta)),
                            outcome |-> "none" ]]
    /\ UNCHANGED <<parse_vars, merge_vars, main_vars, sn>>

\* lines 111-113: the Value in memory replaces the file
ConcWrite(p) ==
    /\ cw.w[p].pc = "write"
    /\ indexFile' = to_string_pretty(cw.w[p].index)
    /\ cw' = [cw EXCEPT !.w[p].pc = "done", !.w[p].outcome = "Inserted", !.last = p]
    /\ UNCHANGED <<parse_vars, index0, mh, main_vars, sn>>

(***************************************************************************)
(* Sanitizer harness: sanitize_filename on every short name                *)
(***************************************************************************)
MaxNameLen == 3

NameChars == ReservedChars \cup {"a", "_", " ", "."}

Names == UNION {[1..n -> NameChars] : n \in 0..MaxNameLen}

SanitizeCall ==
    /\ sn.step = 0
    /\ sn' = [sn EXCEPT !.step = 1, !.out = sanitize_filename(sn.name)]
    /\ UNCHANGED <<parse_vars, merge_vars, main_vars, cw>>

SanitizeAgain ==
    /\ sn.step = 1
    /\ sn' = [sn EXCEPT !.step = 2, !.again = sanitize_filename(sn.out)]
    /\ UNCHANGED <<parse_vars, merge_vars, main_vars, cw>>

(***************************************************************************)
(* Specifications                                                          *)
(***************************************************************************)
InitParse ==
    /\ pform \in ParseForms
    /\ pinput = FormText(pform)
    /\ presult = NoResult
    /\ indexFile = AbsentFile
    /\ index0 = AbsentFile
    /\ mh = NoMerge
    /\ MainIdle
    /\ AuxIdle

NextParse == ParseCall

SpecParse == InitParse /\ [][NextParse]_vars

InitMerge ==
    /\ ParserIdle
    /\ indexFile \in InitialIndexes
    /\ index0 = indexFile
    /\ mh = NoMerge
    /\ MainIdle
    /\ AuxIdle

NextMerge == \E a \in MergeArgs : MergeCall(a)

SpecMerge == InitMerge /\ [][NextMerge]_vars

Init ==
    /\ ParserIdle
    /\ indexFile \in InitialIndexes
    /\ index0 = indexFile
    /\ mh = NoMerge
    /\ disk \in InitialDisks
    /\ pc = "idle" /\ status = "none" /\ inp = NoInput /\ loc = NoLocals
    /\ net = <<>> /\ hist = NoHist /\ runs = 0
    /\ AuxIdle

Next ==
    \/ \E r \in RecordingArgs, mo \in BOOLEAN, ni \in BOOLEAN, k \in KeySources :
            Invoke(r, mo, ni, k)
    \/ ResolveKey
    \/ \E reply \in ApiReplies : FetchMetadata(reply)
    \/ \E d \in Dates, io \in {"ok", "dir_fail", "write_fail"} : WriteMetadata(d, io)
    \/ \E reply \in AudioReplies : FetchAudio(reply)
    \/ \E io \in {"ok", "fail"} : WriteAudio(io)
    \/ UpdateIndex
    \/ Summary

Spec == Init /\ [][Next]_vars

\* The tool run again and again with what the first run was given: the same
\* arguments and environment, the same replies, the same date.
Replayed(field, value) == runs > 1 => value = hist.prevInp[field]

NextRerun ==
    \/ \E r \in RecordingArgs, mo \in BOOLEAN, ni \in BOOLEAN, k \in KeySources :
            Invoke(r, mo, ni, k)
    \/ Reinvoke(inp.recording, inp.metadata_only, inp.no_index, inp.keys)
    \/ ResolveKey
    \/ \E reply \in ApiReplies : Replayed("api", reply) /\ FetchMetadata(reply)
    \/ \E d \in Dates, io \in {"ok", "dir_fail", "write_fail"} :
            Replayed("date", d) /\ Replayed("metaIo", io) /\ WriteMetadata(d, io)
    \/ \E reply \in AudioReplies : Replayed("audio", reply) /\ FetchAudio(reply)
    \/ \E io \in {"ok", "fail"} : Replayed("audioIo", io) /\ WriteAudio(io)
    \/ UpdateIndex
    \/ Summary

SpecRerun == Init /\ [][NextRerun]_vars

InitConc ==
    /\ ParserIdle
    /\ indexFile \in InitialIndexes
    /\ index0 = indexFile
    /\ mh = NoMerge
    /\ MainIdle
    /\ ConcIdle
    /\ SanitizerIdle

NextConc ==
    \/ \E p \in Writers, a \in ConcArgs : ConcRead(p, a)
    \/ \E p \in Writers : ConcWrite(p)

SpecConc == InitConc /\ [][NextConc]_vars

InitSanitize ==
    /\ ParserIdle
    /\ indexFile = AbsentFile
    /\ index0 = AbsentFile
    /\ mh = NoMerge
    /\ MainIdle
    /\ ConcIdle
    /\ sn \in [step : {0}, name : Names, out : {<<>>}, again : {<<>>}]

NextSanitize == SanitizeCall \/ SanitizeAgain

SpecSanitize == InitSanitize /\ [][NextSanitize]_vars

(***************************************************************************)
(* Properties of update_index (SpecMerge)                                  *)
(***************************************************************************)
DistinctIds(sounds) ==
    \A i, j \in 1..Len(sounds) : i # j => sounds[i].xc_id # sounds[j].xc_id

\* the file holds an entry whose xc_id is the number id
ContainsId(file, id) ==
    \E i \in 1..Len(file.doc.sounds) : file.doc.sounds[i].xc_id = [t |-> "u64", v |-> id]

IsPrefix(s, t) == Len(s) <= Len(t) /\ SubSeq(t, 1, Len(s)) = s

\* C1: after any sequence of update_index calls on an index that was absent or
\* had pairwise distinct xc_ids, the index has at most one entry per xc_id.
C1_AtMostOneEntryPerId ==
    DistinctIds(index0.doc.sounds) => DistinctIds(indexFile.doc.sounds)

C1_Witness ==
    /\ mh.calls >= 3
    /\ Len(index0.doc.sounds) >= 1 /\ DistinctIds(index0.doc.sounds)
    /\ Len(indexFile.doc.sounds) >= Len(index0.doc.sounds) + 2
    /\ mh.outcome = "AlreadyPresent"

\* C2: when the same entry is merged twice in a row and the first call returns,
\* the first call inserts (the index did not hold the xc_id), the second finds it
\* AlreadyPresent and does not write: the file is as the first call left it.
C2_SecondMergeIsNoOp ==
    (mh.calls >= 2 /\ mh.args = mh.prevArgs /\ mh.prevOutcome # "none") =>
        /\ ~ContainsId(mh.prevBefore, mh.args.xc_id) => mh.prevOutcome = "Inserted"
        /\ mh.outcome = "AlreadyPresent"
        /\ ~mh.wrote
        /\ indexFile = mh.before

C2_Witness ==
    /\ mh.calls >= 2 /\ mh.args = mh.prevArgs
    /\ mh.prevOutcome = "Inserted" /\ mh.outcome = "AlreadyPresent"
    /\ mh.prevBefore.kind = "doc" /\ ~mh.prevBefore.pretty

\* C3: a call that inserts leaves the earlier entries as they were, in their
\* order, followed by the new entry, and keeps the version (version 1 and the new
\* entry alone when the file was absent); every earlier entry sequence is a
\* prefix of the later ones.
C3_InsertAppendsLast ==
    /\ mh.outcome = "Inserted" =>
        /\ indexFile.kind = "doc"
        /\ indexFile.doc.sounds =
              (IF mh.before.kind = "absent" THEN <<>> ELSE mh.before.doc.sounds)
              \o <<ArgsEntry(mh.args)>>
        /\ indexFile.doc.version =
              (IF mh.before.kind = "absent" THEN 1 ELSE mh.before.doc.version)
    /\ IsPrefix(mh.before.doc.sounds, indexFile.doc.sounds)
    /\ IsPrefix(index0.doc.sounds, indexFile.doc.sounds)

C3_Witness ==
    /\ mh.outcome = "Inserted" /\ mh.prevOutcome = "Inserted"
    /\ mh.before.doc.version = 2
    /\ Len(indexFile.doc.sounds) = 4

(***************************************************************************)
(* Properties of parse_xc_number (SpecParse)                               *)
(***************************************************************************)
\* the decimal text of a u64
IsU64Decimal(d) ==
    /\ Len(d) >= 1
    /\ \A i \in 1..Len(d) : IsDigit(d[i])
    /\ Len(d) > 1 => d[1] # "0"
    /\ ~Overflows(d)

\* the forms C4 lists: the decimal, the decimal after XC in any letter case, a URL
\* on xeno-canto.org with or without www. and scheme, with or without a last `/`
AcceptedForm(f) ==
    /\ IsU64Decimal(f.num)
    /\ \/ f.kind \in {"plain", "xc"} /\ f.tail = <<>>
       \/ f.kind = "url"

\* C4: parse yields n for every accepted representation of n, whitespace around
\* it or not.
C4_EveryFormYieldsTheNumber ==
    (presult # NoResult /\ AcceptedForm(pform)) => presult = [kind |-> "ok", n |-> pform.num]

(***************************************************************************)
(* Properties of one invocation (Spec)                                     *)
(***************************************************************************)
FilesUntouched == disk = hist.startDisk /\ indexFile = hist.startIndex

\* the metadata file the invocation writes
WrittenMeta ==
    MetaFile(MetaFilename(loc.rec), Normalize(loc.rec, loc.xc_number, inp.date))

\* C5: for a malformed identifier parse returns an error (exit(1), no panic) and
\* the invocation ends with no request sent and no file created or changed.
C5_MalformedIdStopsAtOnce ==
    (pc # "idle" /\ inp.recording \in MalformedIds) =>
        /\ pc = "exited" /\ status = "exit1"
        /\ net = <<>>
        /\ FilesUntouched

C5_Witness ==
    /\ pc = "exited" /\ status = "exit1"
    /\ inp.recording = ForeignUrl \o <<"9", "2", "8", "0", "9", "4">>
    /\ disk.dir /\ indexFile.kind = "doc"

\* C6: a reply with a success status and a top-level `error` in its body ends the
\* invocation with a non-zero exit before any file is written.
C6_ApiErrorWritesNothing ==
    (inp.api.sent /\ inp.api.success /\ inp.api.json /\ inp.api.error) =>
        /\ pc = "exited" /\ status \in {"exit1", "panic"}
        /\ FilesUntouched

C6_Witness ==
    /\ pc = "exited" /\ status = "exit1"
    /\ inp.api.sent /\ inp.api.success /\ inp.api.error /\ inp.api.recs # <<>>
    /\ ~disk.dir /\ indexFile.kind = "absent"

AudioFetchFailed == inp.audio # NotFetched /\ ~(inp.audio.sent /\ inp.audio.success)

\* C7: when the metadata was written and the audio fetch fails, the invocation
\* ends with a failure, the metadata file stays, no audio file is written and the
\* index file is as before the invocation.
C7_AudioFailureKeepsMetadata ==
    AudioFetchFailed =>
        /\ pc = "exited" /\ status \in {"exit1", "panic"}
        /\ disk.files = WriteFile(hist.startDisk.files, WrittenMeta)
        /\ WrittenMeta \in disk.files
        /\ indexFile = hist.startIndex

C7_Witness ==
    /\ AudioFetchFailed /\ inp.audio.sent
    /\ pc = "exited"
    /\ ~hist.startDisk.dir /\ disk.files = {WrittenMeta}
    /\ ~inp.no_index

\* C9: a metadata-only invocation that succeeds has written <base>.xc.json, has
\* sent no audio request and written no audio file; with the index update on and
\* the recording not yet indexed the index gains one entry, with the recording's
\* xc_id; with the index update off the index file is neither read nor changed.
C9_MetadataOnlyRun ==
    (pc = "exited" /\ status = "ok" /\ inp.metadata_only) =>
        /\ WrittenMeta.name = BaseName(loc.rec) \o <<".", "x", "c", ".", "j", "s", "o", "n">>
        /\ disk.files = WriteFile(hist.startDisk.files, WrittenMeta)
        /\ \A i \in 1..Len(net) : net[i].kind # "audio"
        /\ (~inp.no_index /\ ~ContainsId(hist.startIndex, RecordingId(loc.rec, loc.xc_number)))
              => /\ Len(indexFile.doc.sounds) = Len(hist.startIndex.doc.sounds) + 1
                 /\ IsPrefix(hist.startIndex.doc.sounds, indexFile.doc.sounds)
                 /\ indexFile.doc.sounds[Len(indexFile.doc.sounds)].xc_id
                        = [t |-> "u64", v |-> RecordingId(loc.rec, loc.xc_number)]
        /\ inp.no_index => (indexFile = hist.startIndex /\ ~loc.indexTouched)

C9_Witness ==
    /\ pc = "exited" /\ status = "ok" /\ inp.metadata_only /\ ~inp.no_index
    /\ loc.outcome = "Inserted"
    /\ Len(hist.startIndex.doc.sounds) >= 1
    /\ \A f \in disk.files : f.kind = "meta"

NoKeyGiven == ~inp.keys.flag.some /\ ~inp.keys.envVar.some /\ ~inp.keys.dotenv.some

\* C10: with no API key in the flag, the environment or .env the process ends
\* with a non-zero exit, and no request is ever sent and no file written.
C10_NoKeyNoNetwork ==
    (pc # "idle" /\ NoKeyGiven) =>
        /\ pc = "key" \/ (pc = "exited" /\ status \in {"exit1", "panic"})
        /\ net = <<>>
        /\ FilesUntouched

C10_Witness ==
    /\ pc = "exited" /\ status = "panic" /\ NoKeyGiven
    /\ loc.xc_number = <<"7">>

(***************************************************************************)
(* Properties of a repeated invocation (SpecRerun)                         *)
(***************************************************************************)
\* C8: a run given what the run before it was given leaves the files as that
\* run left them, and its index update, when it gets there, finds the recording
\* AlreadyPresent.
C8_RerunChangesNothing ==
    (pc = "exited" /\ runs >= 2 /\ inp = hist.prevInp) =>
        /\ FilesUntouched
        /\ status = hist.prevStatus
        /\ loc.indexTouched /\ status = "ok" => loc.outcome = "AlreadyPresent"

C8_Witness ==
    /\ pc = "exited" /\ runs >= 2 /\ inp = hist.prevInp
    /\ status = "ok" /\ ~inp.metadata_only /\ ~inp.no_index
    /\ loc.outcome = "AlreadyPresent"
    /\ Len(indexFile.doc.sounds) = Len(index0.doc.sounds) + 1

(***************************************************************************)
(* Properties of concurrent update_index calls (SpecConc)                  *)
(***************************************************************************)
\* C11: the file after a write is what the last writer read, plus its entry: an
\* entry another invocation inserted is in the file only if the last writer had
\* read it, so two invocations that both insert can leave only the entry of the
\* last writer (C11_LostUpdate is such an interleaving).
C11_LastWriterWins ==
    cw.last # 0 =>
        LET l == cw.w[cw.last]
        IN  /\ indexFile.kind = "doc"
            /\ indexFile.doc.version = l.read.version
            /\ indexFile.doc.sounds = l.read.sounds \o <<ArgsEntry(l.args)>>
            /\ \A q \in Writers :
                 (cw.w[q].outcome = "Inserted" /\ cw.w[q].args.xc_id # l.args.xc_id) =>
                     (ContainsId(indexFile, cw.w[q].args.xc_id)
                        <=> \E i \in 1..Len(l.read.sounds) :
                               l.read.sounds[i].xc_id = [t |-> "u64", v |-> cw.w[q].args.xc_id])

C11_LostUpdate ==
    /\ index0.kind = "absent"
    /\ cw.w[1].outcome = "Inserted" /\ cw.w[2].outcome = "Inserted"
    /\ cw.w[1].args.xc_id # cw.w[2].args.xc_id
    /\ \A p \in Writers : p > 2 => cw.w[p].pc = "idle"
    /\ cw.last = 2
    /\ indexFile.doc.sounds = <<ArgsEntry(cw.w[2].args)>>
    /\ ~ContainsId(indexFile, cw.w[1].args.xc_id)

\* C20: however the reads and writes of concurrent invocations interleave, an
\* index that started absent or duplicate-free never holds two entries with one
\* xc_id, in the file or in the Value a writer is about to write.
C20_NoDuplicatesWhenInterleaved ==
    DistinctIds(index0.doc.sounds) =>
        /\ DistinctIds(indexFile.doc.sounds)
        /\ \A p \in Writers : DistinctIds(cw.w[p].index.sounds)

C20_Witness ==
    /\ Len(index0.doc.sounds) >= 1 /\ DistinctIds(index0.doc.sounds)
    /\ cw.w[1].outcome = "Inserted" /\ cw.w[2].outcome = "Inserted"
    /\ cw.w[1].args.xc_id = cw.w[2].args.xc_id
    /\ cw.w[1].args # cw.w[2].args
    /\ cw.w[3].outcome = "Inserted"
    /\ Len(indexFile.doc.sounds) = Len(index0.doc.sounds) + 1

(***************************************************************************)
(* Properties of one invocation (Spec), continued                          *)
(***************************************************************************)
\* the ID C12 calls authoritative: the record's own `id` when it is a string of
\* a u64 decimal, otherwise the requested ID
AuthoritativeId ==
    IF loc.rec.id.t = "str" /\ IsU64Decimal(loc.rec.id.s) THEN loc.rec.id.s
    ELSE loc.xc_number

\* C12: once the metadata file is written, its xc_id, url and attribution, the
\* base of its name and the xc_id of an index entry the invocation inserts all
\* carry the authoritative ID.
C12_OneAuthoritativeId ==
    inp.metaIo = "ok" =>
        \E f \in disk.files :
            /\ f.kind = "meta" /\ f.meta.raw_response = loc.rec
            /\ f.meta.xc_id = AuthoritativeId
            /\ f.meta.url = <<"h", "t", "t", "p", "s", ":", "/", "/", "w", "w", "w", ".">>
                            \o Host \o AuthoritativeId
            /\ f.meta.attribution =
                   StrOrEmpty(loc.rec.rec) \o <<",", " ", "X", "C">> \o AuthoritativeId
                   \o <<".", " ", "A", "c", "c", "e", "s", "s", "i", "b", "l", "e", " ", "a", "t",
                        " ", "w", "w", "w", ".">> \o Host \o AuthoritativeId
            /\ IsPrefix(<<"X", "C">> \o AuthoritativeId \o <<" ", "-", " ">>, f.name)
            /\ loc.outcome = "Inserted" =>
                   indexFile.doc.sounds[Len(indexFile.doc.sounds)].xc_id
                       = [t |-> "u64", v |-> AuthoritativeId]

\* the reply was read: its status is a success, its body is JSON without `error`
BodyWithoutError ==
    inp.api.sent /\ inp.api.success /\ inp.api.json /\ ~inp.api.error

Unparseable(file) ==
    file.kind = "corrupt" \/ (file.kind = "doc" /\ ~file.doc.soundsIsArray)

\* C14: on an index file that is no JSON, or whose `sounds` is no array, every
\* update_index call panics without writing, and the file stays as it was found.
C14_CorruptIndexIsFatalAndKept ==
    Unparseable(index0) =>
        /\ indexFile = index0
        /\ mh.calls >= 1 =>
               /\ mh.panic /\ ~mh.wrote /\ mh.outcome = "none"
               /\ mh.before = index0

C14_Witness ==
    /\ index0.kind = "corrupt"
    /\ mh.calls >= 2 /\ mh.panic
    /\ indexFile.kind = "corrupt"

(***************************************************************************)
(* Properties of parse_xc_number (SpecParse), continued                    *)
(***************************************************************************)
\* C15, as stated: parse_xc_number never succeeds with the value 0.
C15_ParsedIdIsNonZero ==
    presult.kind = "ok" => presult.n # <<"0">>

\* C15, amended: a successful parse yields a u64 and checks no other range: the
\* value is 0 exactly when the number in the text is 0, and the plain text "0"
\* (with or without padding) is accepted.
C15_ParsedIdIsAnyU64 ==
    /\ presult.kind = "ok" =>
           /\ presult.n \in { <<"0">>, <<"5">>, <<"7">>, <<"9", "2", "8", "0", "9", "4">>,
                              U64MaxDigits }
           /\ presult.n = <<"0">> <=> pform.num = <<"0">>
    /\ (presult # NoResult /\ pform.kind = "plain" /\ pform.num = <<"0">>
            /\ pform.tail = <<>>) =>
           presult = [kind |-> "ok", n |-> <<"0">>]

C15_Witness ==
    /\ presult = [kind |-> "ok", n |-> <<"0">>]
    /\ pform.kind = "url" /\ pform.tail = <<"/">> /\ pform.lead = <<" ">>

(***************************************************************************)
(* Order of the stages of one invocation (Spec)                            *)
(***************************************************************************)
StageRank(p) ==
    CASE p = "idle" -> 0
      [] p = "key" -> 1
      [] p = "fetch" -> 2
      [] p = "write_meta" -> 3
      [] p = "audio_fetch" -> 4
      [] p = "audio_write" -> 5
      [] p = "index" -> 6
      [] p = "summary" -> 7
      [] p = "exited" -> 8

MetadataFetched == Len(net) >= 1 /\ net[1].kind = "metadata" /\ FetchOutcome(inp.api) = "record"
MetadataWritten == inp.metaIo = "ok"
AudioFetched == Len(net) = 2 /\ net[2].kind = "audio" /\ inp.audio.sent /\ inp.audio.success
AudioWritten == inp.audioIo = "ok"

\* what each stage has done only happens after the stages before it succeeded,
\* and a stage that failed has ended the invocation
EffectsInOrder ==
    /\ Len(net) <= 2
    /\ inp.metaIo # "none" => MetadataFetched
    /\ Len(net) = 2 => MetadataWritten /\ ~inp.metadata_only
    /\ inp.audioIo # "none" => AudioFetched
    /\ (pc # "idle" /\ (loc.indexTouched \/ indexFile # hist.startIndex)) =>
           /\ MetadataWritten
           /\ ~inp.metadata_only => AudioFetched /\ AudioWritten
           /\ ~inp.no_index
    /\ status \in {"exit1", "panic"} => pc = "exited"
    /\ ( \/ Len(net) >= 1 /\ FetchOutcome(inp.api) # "record"
         \/ inp.metaIo \in {"dir_fail", "write_fail"}
         \/ Len(net) = 2 /\ ~(inp.audio.sent /\ inp.audio.success)
         \/ inp.audioIo \notin {"none", "ok"} ) =>
           /\ pc = "exited" /\ status \in {"exit1", "panic"}
           /\ ~loc.indexTouched /\ indexFile = hist.startIndex

\* C16: every step moves the invocation to a later stage (no stage is entered
\* twice or before an earlier one), the effects of the stages appear in the
\* order metadata fetch, metadata write, audio fetch, audio write, index merge,
\* and a failed stage ends the invocation with the index file not modified.
C16_StagesInOrder ==
    /\ []EffectsInOrder
    /\ [][StageRank(pc') > StageRank(pc)]_vars

C16_Witness ==
    /\ pc = "exited" /\ status = "ok"
    /\ ~inp.metadata_only /\ AudioFetched /\ AudioWritten
    /\ loc.outcome = "Inserted" /\ indexFile # hist.startIndex

(***************************************************************************)
(* The names of the files (Spec)                                           *)
(***************************************************************************)
\* the extension as C17 states it: the text after the last `.` of a `file-name`
\* that is a string with a `.`, and wav in every other case
StatedExtension(rec) ==
    IF rec.fileName.t = "str" /\ \E i \in 1..Len(rec.fileName.s) : rec.fileName.s[i] = "."
    THEN LET s == rec.fileName.s
             last == CHOOSE i \in 1..Len(s) : s[i] = "." /\ \A j \in (i + 1)..Len(s) : s[j] # "."
         IN  SubSeq(s, last + 1, Len(s))
    ELSE <<"w", "a", "v">>

\* C17: the audio file the invocation writes, and the `filename` of the index
\* entry it inserts, end in `.` and the stated extension.
C17_ExtensionOrWav ==
    /\ inp.audioIo = "ok" =>
           \E f \in disk.files :
               /\ f.kind = "audio" /\ f.bytes = loc.bytes
               /\ f.name = BaseName(loc.rec) \o <<".">> \o StatedExtension(loc.rec)
    /\ loc.outcome = "Inserted" =>
           indexFile.doc.sounds[Len(indexFile.doc.sounds)].filename
               = BaseName(loc.rec) \o <<".">> \o StatedExtension(loc.rec)

(***************************************************************************)
(* Properties of sanitize_filename (SpecSanitize)                          *)
(***************************************************************************)
\* the characters C18 lists
ListedReserved == {"<", ">", ":", "\"", "/", "\\", "|", "?", "*"}

InsertedEntry == indexFile.doc.sounds[Len(indexFile.doc.sounds)]

\* C19: when the invocation has inserted an index entry, the entry's `metadata`
\* names the metadata file it wrote and the entry's `filename` names the audio
\* file it downloaded and wrote.
C19_EntryNamesWrittenFiles ==
    loc.outcome = "Inserted" =>
        /\ inp.metaIo = "ok"
        /\ \E f \in disk.files :
               f.kind = "meta" /\ f.name = InsertedEntry.metadata /\ f = WrittenMeta
        /\ inp.audioIo = "ok"
        /\ \E f \in disk.files :
               f.kind = "audio" /\ f.name = InsertedEntry.filename /\ f.bytes = loc.bytes

====
